---------------------------- MODULE Spec2Model ----------------------------
(***************************************************************************)
(* Model of datalake/metadata.py: the Metadata constructor, which turns a  *)
(* caller-supplied mapping into a validated, normalized metadata record or *)
(* raises InvalidDatalakeMetadata / UnsupportedDatalakeMetadataVersion.    *)
(***************************************************************************)
EXTENDS Integers, Naturals, Sequences, FiniteSets, TLC

(***************************************************************************)
(* IEEE-754 double arithmetic, as far as the constructor uses it.          *)
(* A magnitude is a little-endian sequence of limbs in base 2^LimbBits, so *)
(* that the 53-bit significands of Python's floats (C doubles) are         *)
(* computed exactly whatever the width of the checker's integers.          *)
(***************************************************************************)

\* Width of a double's significand.
MantBits == 53

\* Bits per limb: a limb times a multiplier below 2^20 fits a machine word.
LimbBits == 10

\* Zero limbs put below a dividend before long division; they leave more than
\* MantBits quotient bits for any dividend >= 1 and any divisor < 2^20.
DivShiftLimbs == 8

RECURSIVE Pow2(_)
Pow2(n) == IF n = 0 THEN 1 ELSE 2 * Pow2(n - 1)

Base == Pow2(LimbBits)

RECURSIVE NatToLimbs(_)
NatToLimbs(n) ==
    IF n = 0 THEN << >> ELSE <<n % Base>> \o NatToLimbs(n \div Base)

RECURSIVE LimbsToNat(_)
LimbsToNat(b) ==
    IF b = << >> THEN 0 ELSE Head(b) + Base * LimbsToNat(Tail(b))

\* b * k + c for naturals k, c below 2^20.
RECURSIVE MulAdd(_, _, _)
MulAdd(b, k, c) ==
    IF b = << >>
    THEN NatToLimbs(c)
    ELSE LET v == Head(b) * k + c
         IN  <<v % Base>> \o MulAdd(Tail(b), k, v \div Base)

\* Bit i (from 0, the least significant) of the magnitude b.
Bit(b, i) ==
    IF i \div LimbBits + 1 > Len(b) THEN 0
    ELSE (b[i \div LimbBits + 1] \div Pow2(i % LimbBits)) % 2

\* Number of significant bits of b.
BitLen(b) ==
    LET ones == {i \in 0..(Len(b) * LimbBits - 1) : Bit(b, i) = 1}
    IN  IF ones = {} THEN 0
        ELSE 1 + CHOOSE i \in ones : \A j \in ones : j <= i

LimbOr0(b, j) == IF j >= 1 /\ j <= Len(b) THEN b[j] ELSE 0

\* floor(b / 2^r).
ShiftRight(b, r) ==
    LET q == r \div LimbBits
        s == r % LimbBits
    IN  [j \in 1..(IF Len(b) > q THEN Len(b) - q ELSE 0) |->
            (LimbOr0(b, j + q) \div Pow2(s))
            + (LimbOr0(b, j + q + 1) % Pow2(s)) * Pow2(LimbBits - s)]

Zeros(n) == [i \in 1..n |-> 0]

\* Long division of b (limbs taken from the most significant end) by d < 2^20:
\* the quotient accumulated in q, and the remainder.
RECURSIVE LongDiv(_, _, _, _)
LongDiv(b, d, q, rem) ==
    IF b = << >>
    THEN [q |-> q, rem |-> rem]
    ELSE LET r == Base * rem + b[Len(b)]
         IN  LongDiv(SubSeq(b, 1, Len(b) - 1), d, <<r \div d>> \o q, r % d)

\* Round-to-nearest, ties-to-even, of the magnitude b * 2^e (plus a nonzero
\* tail below its last bit when sticky) to a double [m, e] of value m * 2^e
\* with m < 2^MantBits or m = 2^MantBits.
RoundToDouble(b, e, sticky) ==
    LET L == BitLen(b)
    IN  IF L <= MantBits
        THEN [m |-> b, e |-> e]
        ELSE LET r     == L - MantBits
                 kept  == ShiftRight(b, r)
                 guard == Bit(b, r - 1)
                 tail  == sticky \/ \E i \in 0..(r - 2) : Bit(b, i) = 1
                 up    == guard = 1 /\ (tail \/ Bit(b, r) = 1)
             IN  [m |-> IF up THEN MulAdd(kept, 1, 1) ELSE kept, e |-> e + r]

\* The double nearest to num / d: Python's true division of two integers.
TrueDivide(num, d) ==
    LET res == LongDiv(Zeros(DivShiftLimbs) \o num, d, << >>, 0)
    IN  RoundToDouble(res.q, 0 - DivShiftLimbs * LimbBits, res.rem # 0)

\* The double x * k for a natural k < 2^20: one float multiplication.
FloatMul(x, k) == RoundToDouble(MulAdd(x.m, k, 0), x.e, FALSE)

\* int(x) for a magnitude: the digits above the binary point.
FloatTrunc(x) ==
    IF x.e >= 0 THEN LimbsToNat(x.m) * Pow2(x.e)
    ELSE LimbsToNat(ShiftRight(x.m, 0 - x.e))


(***************************************************************************)
(* Python values.  A value is a record tagged with its Python type.        *)
(* A float is the double nearest to us / 10^6 (or nan / inf); a str is     *)
(* either plain text or the text of a date-time, held as the fields the    *)
(* date parser reads from it; a list is a reference into the heap.         *)
(***************************************************************************)

None == [t |-> "NoneType"]
IntV(n) == [t |-> "int", n |-> n]
BoolV(n) == [t |-> "bool", n |-> n]
FloatV(us) == [t |-> "float", k |-> "finite", us |-> us]
NaN == [t |-> "float", k |-> "nan", us |-> 0]
Inf == [t |-> "float", k |-> "inf", us |-> 0]
TextV(s) == [t |-> "str", k |-> "text", s |-> s]
\* day: days from 1970-01-01; sec: seconds from midnight; us: microseconds;
\* aware: the text carries a UTC offset; off: that offset in minutes east.
DateStr(day, sec, us, aware, off) ==
    [t |-> "str", k |-> "date", day |-> day, sec |-> sec, us |-> us,
     aware |-> aware, off |-> off]
ListV(a) == [t |-> "list", addr |-> a]

\* A key that a mapping does not hold (used only to enumerate inputs).
Absent == [t |-> "absent"]

Keys == {"id", "version", "work_id", "start", "end", "where", "what", "hash",
         "extra"}

\* The order in which a mapping's items are visited.
KeyOrder == <<"id", "version", "work_id", "start", "end", "where", "what",
              "hash", "extra">>

\* The mapping with no key.
EmptyDict == [k \in {} |-> None]

\* m with m[k] = v (dict.__setitem__).
SetItem(m, k, v) ==
    [j \in DOMAIN m \cup {k} |-> IF j = k THEN v ELSE m[j]]

\* dict.get(k): None when k is not a key.
Get(m, k) == IF k \in DOMAIN m THEN m[k] ELSE None

(***************************************************************************)
(* The heap of mutable nested objects.  A list holds one element, an atom  *)
(* or another list.                                                        *)
(***************************************************************************)

\* Upper bound on the constructor calls of one behaviour.
MaxCalls == 2

\* Upper bound on the mutations the caller makes after a call returns.
MaxMuts == 1

\* List cells the caller's objects occupy before the first call.
InputCells == 3

Addr == 1..(InputCells * (MaxCalls + 1))

Free == [t |-> "free"]
Cell(v) == [t |-> "cell", elem |-> v]

\* The lowest free address.
Alloc(h) ==
    CHOOSE a \in Addr : h[a] = Free /\ \A b \in Addr : b < a => h[b] # Free

\* copy.deepcopy of one value: a list is rebuilt element by element.
RECURSIVE deepcopy_value(_, _)
deepcopy_value(v, h) ==
    IF v.t # "list"
    THEN [v |-> v, h |-> h]
    ELSE LET a     == Alloc(h)
             inner == deepcopy_value(h[v.addr].elem, [h EXCEPT ![a] = Cell(None)])
         IN  [v |-> ListV(a), h |-> [inner.h EXCEPT ![a] = Cell(inner.v)]]

RECURSIVE deepcopy_items(_, _, _, _)
deepcopy_items(m, i, acc, h) ==
    IF i > Len(KeyOrder) THEN [m |-> acc, h |-> h]
    ELSE IF KeyOrder[i] \notin DOMAIN m THEN deepcopy_items(m, i + 1, acc, h)
    ELSE LET c == deepcopy_value(m[KeyOrder[i]], h)
         IN  deepcopy_items(m, i + 1, SetItem(acc, KeyOrder[i], c.v), c.h)

\* A faulty copy: dict(m), which shares the nested objects with m.
shallow_copy(m, h) == [m |-> m, h |-> h]

\* copy.deepcopy of the arguments, then dict.__init__ from the copy.
deepcopy(m, h) == deepcopy_items(m, 1, EmptyDict, h)

\* The value a reference stands for: what == compares.
RECURSIVE Deref(_, _)
Deref(v, h) ==
    IF v.t = "list"
    THEN [t |-> "list", elem |-> Deref(h[v.addr].elem, h)]
    ELSE v

View(m, h) == [k \in DOMAIN m |-> Deref(m[k], h)]

RECURSIVE ReachVal(_, _)
ReachVal(v, h) ==
    IF v.t = "list" THEN {v.addr} \cup ReachVal(h[v.addr].elem, h) ELSE {}

\* The list cells reachable from a mapping.
Reach(m, h) == UNION {ReachVal(m[k], h) : k \in DOMAIN m}


(***************************************************************************)
(* The Metadata class.  Each method is an operator on the mapping (self);  *)
(* a method that can raise yields the set of its possible outcomes.        *)
(***************************************************************************)

_VERSION == 0

\* A faulty variant of the list below: hash is not checked.
required_without_hash == <<"version", "start", "where", "what", "id">>

_REQUIRED_METADATA_FIELDS == <<"version", "start", "where", "what", "id", "hash">>

\* uuid4().hex: some token, never None.
Uuid4Hex == {TextV("uuid-a"), TextV("uuid-b")}

\* A faulty _ensure_id: the id is generated even when the caller gave one.
ensure_id_always(m, tok) == SetItem(m, "id", tok)

_ensure_id(m, tok) ==
    IF "id" \notin DOMAIN m THEN SetItem(m, "id", tok) ELSE m

\* A faulty _ensure_version: no default is set.
ensure_version_never(m) == m

_ensure_version(m) ==
    IF "version" \notin DOMAIN m THEN SetItem(m, "version", IntV(_VERSION)) ELSE m

\* A faulty _ensure_work_id: the work_id is reset even when the caller gave one.
ensure_work_id_always(m) == SetItem(m, "work_id", None)

_ensure_work_id(m) ==
    IF "work_id" \notin DOMAIN m THEN SetItem(m, "work_id", None) ELSE m

\* The exception _validate_required_fields raises, or "none".
_validate_required_fields(m) ==
    IF \E i \in 1..Len(_REQUIRED_METADATA_FIELDS) :
           Get(m, _REQUIRED_METADATA_FIELDS[i]) = None
    THEN "InvalidDatalakeMetadata"
    ELSE "none"

\* Python's v != n for an int n: numbers compare by value across int, bool
\* and float; a value of any other type differs from every int.
PyNe(v, n) ==
    IF v.t \in {"int", "bool"} THEN v.n # n
    ELSE IF v.t = "float" /\ v.k = "finite" THEN v.us # n * 1000000
    ELSE TRUE

\* A faulty _validate_version: the wrong exception class is raised.
validate_version_as_invalid(m) ==
    IF PyNe(m["version"], _VERSION) THEN "InvalidDatalakeMetadata" ELSE "none"

\* The exception _validate_version raises, or "none".
_validate_version(m) ==
    IF PyNe(m["version"], _VERSION)
    THEN "UnsupportedDatalakeMetadataVersion"
    ELSE "none"

\* What the date parser raises for an argument that is no string: a
\* TypeError or an AttributeError, depending on the dateutil release.
ParserArgumentErrors == {"TypeError", "AttributeError"}

NoDatetime == [day |-> 0, sec |-> 0, us |-> 0, aware |-> FALSE, off |-> 0]

\* dateutil.parser.parse: a datetime, naive when the text has no offset; a
\* ValueError for text that is no date.
dateparse(v) ==
    IF v.t # "str"
    THEN {[exc |-> e, d |-> NoDatetime] : e \in ParserArgumentErrors}
    ELSE IF v.k = "text"
    THEN {[exc |-> "ValueError", d |-> NoDatetime]}
    ELSE {[exc |-> "none",
           d |-> [day |-> v.day, sec |-> v.sec, us |-> v.us,
                  aware |-> v.aware, off |-> v.off]]}

\* int(x * 1000.0) for the double x of magnitude mag / 10^6 and the given sign.
FloatToMilliseconds(sign, mag) ==
    sign * FloatTrunc(FloatMul(TrueDivide(mag, 1000000), 1000))

\* d - _EPOCH for an aware d, then int(delta.total_seconds() * 1000.0).
\* total_seconds() is the true division of the delta's microseconds by 10^6.
_datetime_to_milliseconds(d) ==
    LET secs == d.day * 86400 + d.sec - d.off * 60
    IN  IF secs >= 0
        THEN FloatToMilliseconds(1, MulAdd(NatToLimbs(secs), 1000000, d.us))
        ELSE FloatToMilliseconds(0 - 1,
                 MulAdd(NatToLimbs(0 - secs - 1), 1000000, 1000000 - d.us))

_normalize_date_from_string(date) ==
    {IF p.exc = "ValueError"
         THEN [exc |-> "InvalidDatalakeMetadata", v |-> date]
     ELSE IF p.exc # "none"
         THEN [exc |-> p.exc, v |-> date]
     ELSE LET d == IF ~p.d.aware
                   THEN [p.d EXCEPT !.aware = TRUE, !.off = 0]
                   ELSE p.d
          IN  [exc |-> "none", v |-> IntV(_datetime_to_milliseconds(d))]
     : p \in dateparse(date)}

\* int(date * 1000.0) for a float date.
FloatDate(date) ==
    IF date.k = "nan" THEN {[exc |-> "ValueError", v |-> date]}
    ELSE IF date.k = "inf" THEN {[exc |-> "OverflowError", v |-> date]}
    ELSE {[exc |-> "none",
           v |-> IntV(FloatToMilliseconds(
                          IF date.us < 0 THEN 0 - 1 ELSE 1,
                          NatToLimbs(IF date.us < 0 THEN 0 - date.us
                                     ELSE date.us)))]}

\* A faulty _normalize_date: a float is passed through like an int.
normalize_date_keep_float(date) ==
    IF date.t \in {"int", "float"}
    THEN {[exc |-> "none", v |-> date]}
    ELSE _normalize_date_from_string(date)

_normalize_date(date) ==
    IF date.t = "int"
    THEN {[exc |-> "none", v |-> date]}
    ELSE IF date.t = "float"
    THEN FloatDate(date)
    ELSE _normalize_date_from_string(date)

\* One round of the loop of _normalize_dates, from the outcome r so far.
NormalizeKey(r, d) ==
    IF r.exc # "none" \/ d \notin DOMAIN r.m
    THEN {r}
    ELSE {IF o.exc = "none"
              THEN [exc |-> "none", m |-> SetItem(r.m, d, o.v)]
              ELSE [exc |-> o.exc, m |-> r.m]
          : o \in _normalize_date(r.m[d])}

_normalize_dates(m) ==
    UNION {NormalizeKey(r, "end")
           : r \in NormalizeKey([exc |-> "none", m |-> m], "start")}


(***************************************************************************)
(* The state: a caller holding a mapping, and one constructor call at a    *)
(* time running through the statements of Metadata.__init__.               *)
(***************************************************************************)

VARIABLES
    input,     \* the caller's mapping, passed to the constructor
    heap,      \* the nested objects of the caller and of the records
    self,      \* the dict under construction
    record,    \* the record the last call returned (EmptyDict: none)
    pc,        \* the statement of __init__ to run next, "returned" or "raised"
    exc,       \* the exception the call raised, or "none"
    given,     \* the value of the argument when the call was made
    calls,     \* constructor calls made
    muts,      \* mutations made by the caller
    recDirty,  \* the caller has mutated the record since it was returned
    fromRecord \* the argument of the call is a record as it was returned

vars == <<input, heap, self, record, pc, exc, given, calls, muts, recDirty,
          fromRecord>>

\* An upper bound on the whole seconds of the date-time texts tried.
MaxSec == 2

Text == TextV("abc")

IntTimes == {IntV(1000), IntV(0 - 1500)}

FloatTimes ==
    {FloatV(1500000), FloatV(0 - 1500000), FloatV(62500), FloatV(0 - 62500),
     FloatV(1001000), FloatV(2010000), NaN, Inf}

DateTimes ==
    {DateStr(0, s, u, a, 0) : s \in 1..MaxSec, u \in {0, 10000}, a \in BOOLEAN}
    \cup {DateStr(0, 64, 8000, FALSE, 0),
          DateStr(0 - 1, 86399, 998500, FALSE, 0),
          DateStr(0, 3600, 62500, TRUE, 60),
          DateStr(1, 0, 0, TRUE, 0 - 60)}

BadTimes == {TextV("not-a-date"), BoolV(1), ListV(1)}

TimeVals == IntTimes \cup FloatTimes \cup DateTimes \cup BadTimes

\* The mapping that holds the keys of f that are not Absent.
MkDict(f) == [k \in {j \in DOMAIN f : f[j] # Absent} |-> f[k]]

\* Inputs that vary which fields are present, null or set.
PresenceInputs ==
    [id : {Absent, None, TextV("id-1")},
     version : {Absent, None, IntV(0), IntV(1)},
     work_id : {Absent, None, TextV("job-1")},
     start : {Absent, None, IntV(1000), TextV("not-a-date")},
     end : {Absent, IntV(2000), TextV("not-a-date")},
     where : {Absent, None, Text},
     what : {Absent, None, Text},
     hash : {Absent, None, Text},
     extra : {Absent}]

\* Inputs that vary the timestamps.
TimeInputs ==
    [id : {Absent, TextV("id-1")},
     version : {Absent},
     work_id : {Absent},
     start : TimeVals,
     end : {Absent, None, IntV(2000), DateStr(0, 2, 10000, FALSE, 0),
            TextV("not-a-date")},
     where : {Text}, what : {Text}, hash : {Text},
     extra : {Absent, ListV(2)}]
    \cup
    [id : {TextV("id-1")},
     version : {IntV(0)},
     work_id : {Absent},
     start : {IntV(1000), FloatV(1500000)},
     end : TimeVals,
     where : {Text}, what : {Text}, hash : {Text},
     extra : {Absent, ListV(2)}]

\* Inputs that vary the types of the other fields.
TypeInputs ==
    [id : {Absent, IntV(7)},
     version : {BoolV(0), BoolV(1), FloatV(0), FloatV(1000000), TextV("0"), NaN},
     work_id : {Absent, IntV(3)},
     start : {IntV(1000), TextV("not-a-date")},
     end : {Absent},
     where : {Text, ListV(1)},
     what : {Text},
     hash : {IntV(5)},
     extra : {Absent, Text, ListV(2)}]

Inputs == {MkDict(f) : f \in PresenceInputs \cup TimeInputs \cup TypeInputs}

\* The caller's nested objects: [7], and [[8]].
InitHeap ==
    [a \in Addr |->
        IF a = 1 THEN Cell(IntV(7))
        ELSE IF a = 2 THEN Cell(ListV(3))
        ELSE IF a = 3 THEN Cell(IntV(8))
        ELSE Free]

Init ==
    /\ input \in Inputs
    /\ heap = InitHeap
    /\ self = EmptyDict
    /\ record = EmptyDict
    /\ pc = "deepcopy"
    /\ exc = "none"
    /\ given = EmptyDict
    /\ calls = 0
    /\ muts = 0
    /\ recDirty = FALSE
    /\ fromRecord = FALSE

\* The call raises e: the dict under construction is dropped.
Raise(e) ==
    /\ pc' = "raised"
    /\ exc' = e
    /\ self' = EmptyDict
    /\ UNCHANGED <<input, heap, record, given, calls, muts, recDirty, fromRecord>>

\* The call goes on to statement next with self = m.
Goto(next, m) ==
    /\ pc' = next
    /\ self' = m
    /\ UNCHANGED <<input, heap, record, exc, given, calls, muts, recDirty,
                   fromRecord>>

\* __init__: deepcopy of the arguments and dict.__init__.
DeepCopyArgs ==
    /\ pc = "deepcopy"
    /\ LET c == deepcopy(input, heap)
       IN  /\ self' = c.m
           /\ heap' = c.h
    /\ given' = View(input, heap)
    /\ calls' = calls + 1
    /\ pc' = "_ensure_id"
    /\ UNCHANGED <<input, record, exc, muts, recDirty, fromRecord>>

EnsureId ==
    /\ pc = "_ensure_id"
    /\ \E tok \in Uuid4Hex : Goto("_ensure_version", _ensure_id(self, tok))

EnsureVersion ==
    /\ pc = "_ensure_version"
    /\ Goto("_ensure_work_id", _ensure_version(self))

EnsureWorkId ==
    /\ pc = "_ensure_work_id"
    /\ Goto("_validate_required_fields", _ensure_work_id(self))

ValidateRequiredFields ==
    /\ pc = "_validate_required_fields"
    /\ IF _validate_required_fields(self) # "none"
       THEN Raise(_validate_required_fields(self))
       ELSE Goto("_validate_version", self)

ValidateVersion ==
    /\ pc = "_validate_version"
    /\ IF _validate_version(self) # "none"
       THEN Raise(_validate_version(self))
       ELSE Goto("_normalize_dates", self)

\* _normalize_dates, and the return of the constructed record.
NormalizeDates ==
    /\ pc = "_normalize_dates"
    /\ \E r \in _normalize_dates(self) :
          IF r.exc # "none"
          THEN Raise(r.exc)
          ELSE /\ pc' = "returned"
               /\ record' = r.m
               /\ self' = EmptyDict
               /\ recDirty' = FALSE
               /\ UNCHANGED <<input, heap, exc, given, calls, muts, fromRecord>>

\* What the caller writes when it mutates a mapping.
Changed == TextV("changed")

\* The top-level keys the caller reassigns.
MutKeys == {"what", "start", "extra"}

\* The caller mutates its own mapping, at the top level or inside it.
MutateCaller ==
    /\ pc = "returned"
    /\ muts < MaxMuts
    /\ muts' = muts + 1
    /\ \/ \E k \in DOMAIN input \cap MutKeys :
            /\ input' = [input EXCEPT ![k] = Changed]
            /\ heap' = heap
       \/ \E a \in Reach(input, heap) :
            /\ heap' = [heap EXCEPT ![a] = Cell(Changed)]
            /\ input' = input
    /\ UNCHANGED <<self, record, pc, exc, given, calls, recDirty, fromRecord>>

\* The caller mutates the returned record, at the top level or inside it.
MutateRecord ==
    /\ pc = "returned"
    /\ muts < MaxMuts
    /\ muts' = muts + 1
    /\ recDirty' = TRUE
    /\ \/ \E k \in DOMAIN record \cap MutKeys :
            /\ record' = [record EXCEPT ![k] = Changed]
            /\ heap' = heap
       \/ \E a \in Reach(record, heap) :
            /\ heap' = [heap EXCEPT ![a] = Cell(Changed)]
            /\ record' = record
    /\ UNCHANGED <<input, self, pc, exc, given, calls, fromRecord>>

\* The caller passes the returned record to the constructor.
CallAgain ==
    /\ pc = "returned"
    /\ calls < MaxCalls
    /\ input' = record
    /\ record' = EmptyDict
    /\ fromRecord' = ~recDirty
    /\ recDirty' = FALSE
    /\ pc' = "deepcopy"
    /\ UNCHANGED <<heap, self, exc, given, calls, muts>>

Next ==
    \/ DeepCopyArgs
    \/ EnsureId
    \/ EnsureVersion
    \/ EnsureWorkId
    \/ ValidateRequiredFields
    \/ ValidateVersion
    \/ NormalizeDates
    \/ MutateCaller
    \/ MutateRecord
    \/ CallAgain

Spec == Init /\ [][Next]_vars


(***************************************************************************)
(* Properties.  "given" is the input as it was passed; a record is judged  *)
(* as it was returned, before the caller touches it.                       *)
(***************************************************************************)

Done == pc \in {"returned", "raised"}

\* The call has returned a record that the caller has not mutated since.
Returned == pc = "returned" /\ ~recDirty

Present(m, k) == k \in DOMAIN m /\ m[k] # None

Defaultable == {"id", "version", "work_id"}

Invalid == "InvalidDatalakeMetadata"
Unsupported == "UnsupportedDatalakeMetadataVersion"

\* A timestamp the constructor converts: an int, a float that is a number,
\* or the text of a date-time.
Convertible(v) ==
    \/ v.t = "int"
    \/ v.t = "float" /\ v.k = "finite"
    \/ v.t = "str" /\ v.k = "date"

\* A timestamp of one of the types the specification lists as valid.
ListedValid(v) == v.t \in {"int", "float"} \/ (v.t = "str" /\ v.k = "date")

UnparsableText(v) == v.t = "str" /\ v.k = "text"

\* The version is there, not null, and differs from the supported one.
VersionDiffers(m) ==
    "version" \in DOMAIN m /\ m["version"] # None /\ PyNe(m["version"], 0)

\* The version is absent or equals the supported one.
VersionSupported(m) ==
    "version" \notin DOMAIN m \/ (m["version"] # None /\ ~PyNe(m["version"], 0))

\* One of the fields without a default is absent or null, or a field with a
\* default is present and null.
LacksRequired(m) ==
    \/ \E k \in {"start", "where", "what", "hash"} : ~Present(m, k)
    \/ \E k \in {"id", "version"} : k \in DOMAIN m /\ m[k] = None

\* The record invariants of the data model.
RecordInvariants(r) ==
    /\ \A k \in {"id", "version", "start", "where", "what", "hash"} : Present(r, k)
    /\ ~PyNe(r["version"], 0)
    /\ r["start"].t = "int"
    /\ "end" \in DOMAIN r => r["end"].t = "int"

\* C1: every record the constructor returns has id, version, start, where,
\* what and hash present and non-null, a version equal to 0, an integer start
\* and, if it has an end, an integer end.
C1_RecordInvariants == Returned => RecordInvariants(record)

C1_Witness ==
    /\ Returned
    /\ given["start"].t = "float"
    /\ "end" \in DOMAIN given /\ given["end"].t = "str"
    /\ "id" \notin DOMAIN given

\* C2: a call whose input lacks start, where, what or hash (absent or null),
\* or holds a null id or version, never gets past the required-field check:
\* it raises InvalidDatalakeMetadata and returns no record, whatever the
\* version and the other fields are.
C2_MissingFieldIsInvalid ==
    (calls >= 1 /\ pc # "deepcopy" /\ LacksRequired(given)) =>
        /\ pc \notin {"_validate_version", "_normalize_dates", "returned"}
        /\ record = EmptyDict
        /\ pc = "raised" => exc = Invalid

C2_Witness ==
    /\ pc = "raised"
    /\ exc = Invalid
    /\ \A k \in {"start", "where", "what", "id", "version"} : Present(given, k)
    /\ given["version"] = IntV(1)
    /\ "hash" \notin DOMAIN given
    /\ given["start"] = TextV("not-a-date")

\* C3 as stated: every input whose version differs from the supported one
\* fails with UnsupportedDatalakeMetadataVersion.
C3_AnyOtherVersionIsUnsupported ==
    (Done /\ VersionDiffers(given)) => (pc = "raised" /\ exc = Unsupported)

\* C3 amended: an input whose version is present, non-null and different
\* from the supported one, and whose other required fields are present and
\* non-null (id may be absent), fails with UnsupportedDatalakeMetadataVersion,
\* which is not InvalidDatalakeMetadata, whatever its timestamps are.
C3_OtherVersionIsUnsupported ==
    (Done /\ VersionDiffers(given) /\ ~LacksRequired(given)) =>
        (pc = "raised" /\ exc = Unsupported /\ exc # Invalid)

C3_Witness ==
    /\ pc = "raised"
    /\ exc = Unsupported
    /\ ~LacksRequired(given)
    /\ Present(given, "version") /\ given["version"] = IntV(1)
    /\ given["start"] = TextV("not-a-date")

\* C4: no statement of the constructor changes the caller's mapping or
\* anything nested in it; once a record is returned, a mutation of the
\* caller's mapping, at the top level or of a nested object, leaves every
\* field of the record unchanged, and a mutation of the record leaves the
\* caller's mapping unchanged: they share no structure.
C4_NoSharedStructure ==
    [][/\ (pc \notin {"returned", "raised"}) =>
              View(input', heap') = View(input, heap)
       /\ MutateCaller => View(record', heap') = View(record, heap)
       /\ MutateRecord => View(input', heap') = View(input, heap)]_vars

C4_Witness ==
    /\ pc = "returned"
    /\ muts > 0
    /\ "extra" \in DOMAIN record /\ record["extra"].t = "list"
    /\ "extra" \in DOMAIN input /\ input["extra"].t = "list"
    /\ Deref(input["extra"], heap) # Deref(record["extra"], heap)

\* C5 as stated: an input with non-null where, what and hash, a start of a
\* listed type and a version absent or supported is accepted.
C5_ValidInputSucceeds ==
    (/\ Done
     /\ \A k \in {"where", "what", "hash"} : Present(given, k)
     /\ "start" \in DOMAIN given /\ ListedValid(given["start"])
     /\ VersionSupported(given)) => pc = "returned"

\* The input the constructor accepts.
Acceptable(m) ==
    /\ \A k \in {"where", "what", "hash"} : Present(m, k)
    /\ "start" \in DOMAIN m /\ Convertible(m["start"])
    /\ "end" \in DOMAIN m => Convertible(m["end"])
    /\ "id" \in DOMAIN m => m["id"] # None
    /\ VersionSupported(m)

\* C5 amended: an input with non-null where, what and hash, a start that is
\* an int, a finite float or the text of a date-time, an end that is absent
\* or such a value, an id that is absent or non-null and a version that is
\* absent or equal to the supported one is accepted; and in every record
\* returned, a field among id, version, work_id that the input lacked holds
\* its default (a generated token, 0, None) while one the input held keeps
\* the input's value.
C5_AcceptableInputSucceeds ==
    /\ (Done /\ Acceptable(given)) => pc = "returned"
    /\ Returned =>
          /\ "id" \notin DOMAIN given => record["id"] \in Uuid4Hex
          /\ "version" \notin DOMAIN given => record["version"] = IntV(0)
          /\ "work_id" \notin DOMAIN given => record["work_id"] = None
          /\ \A k \in Defaultable \cap DOMAIN given :
                 Deref(record[k], heap) = given[k]

C5_Witness ==
    /\ Returned
    /\ Defaultable \cap DOMAIN given = {}
    /\ given["start"].t = "str"
    /\ "end" \in DOMAIN given

\* C6: a returned record holds every key of the input other than start and
\* end with the input's value, and its keys are the input's keys plus id,
\* version and work_id.
C6_OnlyTimestampsChange ==
    Returned =>
        /\ DOMAIN record = DOMAIN given \cup Defaultable
        /\ \A k \in DOMAIN given \ {"start", "end"} :
               Deref(record[k], heap) = given[k]

C6_Witness ==
    /\ Returned
    /\ Defaultable \subseteq DOMAIN given
    /\ given["work_id"] # None
    /\ "extra" \in DOMAIN given /\ given["extra"].t = "list"
    /\ given["where"].t = "list"

\* The milliseconds from the epoch to the instant a date-time text names,
\* UTC when it has no offset, truncated toward zero.
InstantMs(v) ==
    LET secs == v.day * 86400 + v.sec - (IF v.aware THEN v.off * 60 ELSE 0)
    IN  IF secs >= 0
        THEN secs * 1000 + v.us \div 1000
        ELSE (secs + 1) * 1000 - ((1000000 - v.us) \div 1000)

\* The timestamp the specification gives for an input value.
SpecifiedMs(v) ==
    IF v.t = "int" THEN v
    ELSE IF v.t = "float"
    THEN IntV(FloatToMilliseconds(IF v.us < 0 THEN 0 - 1 ELSE 1,
                                  NatToLimbs(IF v.us < 0 THEN 0 - v.us ELSE v.us)))
    ELSE IntV(InstantMs(v))

\* C7: in a returned record start, and end when the input has it, is the
\* conversion of the input's value: an int unchanged, a float times 1000
\* truncated toward zero, a date-time text the milliseconds between its
\* instant and the epoch; a record has an end only if the input has.
C7_TimestampsConverted ==
    Returned =>
        /\ \A d \in {"start", "end"} \cap DOMAIN given :
               d \in DOMAIN record /\ record[d] = SpecifiedMs(given[d])
        /\ "end" \notin DOMAIN given => "end" \notin DOMAIN record

\* C8: a call ends with a record that satisfies the record invariants, with
\* InvalidDatalakeMetadata or with UnsupportedDatalakeMetadataVersion, and
\* in no other way.
C8_TwoErrorKinds ==
    /\ Returned => RecordInvariants(record)
    /\ pc = "raised" => exc \in {Invalid, Unsupported}

\* C9: the first failing check decides the error.  A missing or null
\* required field with an unsupported version: InvalidDatalakeMetadata.  All
\* required fields, an unsupported version and an unparsable start text:
\* UnsupportedDatalakeMetadataVersion.  All required fields, a supported
\* version and an unparsable start or end text: InvalidDatalakeMetadata.
C9_FirstFailingCheckDecides ==
    Done =>
        /\ (LacksRequired(given) /\ VersionDiffers(given)) =>
               (pc = "raised" /\ exc = Invalid)
        /\ (~LacksRequired(given) /\ VersionDiffers(given)
            /\ UnparsableText(given["start"])) =>
               (pc = "raised" /\ exc = Unsupported)
        /\ (~LacksRequired(given) /\ VersionSupported(given)
            /\ \E d \in {"start", "end"} \cap DOMAIN given :
                   UnparsableText(given[d])) =>
               (pc = "raised" /\ exc = Invalid)

\* C10: the constructor called on a record it returned, untouched since,
\* returns a record equal to it in every field.
C10_IdempotentOnRecords ==
    (Done /\ fromRecord) =>
        /\ pc = "returned"
        /\ ~recDirty => View(record, heap) = given

C10_Witness ==
    /\ Returned
    /\ fromRecord
    /\ calls = 2
    /\ "end" \in DOMAIN record
    /\ "extra" \in DOMAIN record /\ record["extra"].t = "list"

=============================================================================
